---- MODULE Spec2Model ----
(***************************************************************************)
(* Model of the L2 batch proposer (WatcherClient.tryProposeBatch and       *)
(* WatcherClient.createBatchForBlocks) and of the proof message protocol   *)
(* (ProofMsg.Sign / Verify / PublicKey, common/types/message/message.go).  *)
(***************************************************************************)
EXTENDS Integers, Sequences, FiniteSets, TLC

\* ------------------------------------------------------------------ bounds
\* number of goroutines that call tryProposeBatch on the same WatcherClient
NumProcs == 2
\* blocks the upstream block fetcher inserts into the store
MaxBlocks == 3
\* the clock stops advancing at this second
MaxTime == 301

\* ------------------------------------------------------- program constants
batchTimeSec == 300
batchGasThresholdInt == 3000000
batchBlocksLimit == 100

\* ----------------------------------------------------------------- uint64
\* A uint64 is four 16-bit limbs, least significant first: the arithmetic of
\* the accumulation loop is done at its full width of 64 bits.
LimbBase == 65536

U64Of(n) == <<n % LimbBase, (n \div LimbBase) % LimbBase, 0, 0>>

MaxUint64 == <<LimbBase - 1, LimbBase - 1, LimbBase - 1, LimbBase - 1>>

Zero64 == <<0, 0, 0, 0>>

\* carries of a + b, limb by limb
LimbSums(a, b) ==
    LET s1 == a[1] + b[1]
        s2 == a[2] + b[2] + (s1 \div LimbBase)
        s3 == a[3] + b[3] + (s2 \div LimbBase)
        s4 == a[4] + b[4] + (s3 \div LimbBase)
    IN  <<s1, s2, s3, s4>>

\* Go's a + b on uint64: the carry out of bit 63 is dropped
AddU64(a, b) ==
    LET s == LimbSums(a, b)
    IN  <<s[1] % LimbBase, s[2] % LimbBase, s[3] % LimbBase, s[4] % LimbBase>>

\* the mathematical sum a + b does not fit 64 bits
AddCarries(a, b) == LimbSums(a, b)[4] >= LimbBase

GtU64(a, b) ==
    \E i \in 1..4 : a[i] > b[i] /\ \A j \in (i + 1)..4 : a[j] = b[j]

LtU64(a, b) == GtU64(b, a)

batchGasThreshold == U64Of(batchGasThresholdInt)

\* ------------------------------------------------------------------ state
Procs == 1..NumProcs

VARIABLES
    blockInfos,   \* the block table of the store, ascending by Number
    batchTable,   \* the committed rows of the batch table
    bpMutex,      \* w.bpMutex: 0 when free, else the goroutine holding it
    pc,           \* where each goroutine stands in tryProposeBatch
    loc,          \* the locals of each invocation
    dbTx,         \* the transaction each invocation holds
    result,       \* what each goroutine's last invocation returned
    now,          \* time.Now().Unix()
    hist,         \* per invocation in flight: what it remembers of the store
    assigned,     \* per block: every batch id a commit ever set on it
    proofMsg,     \* one ProofMsg: its ProofDetail, Signature and publicKey
    lastCall,     \* the last call on proofMsg and what it returned
    signer,       \* the key of the last successful Sign of the message as it
                  \* stands, 0 when it was not signed or was changed since
    sanityCall,   \* the last call of BatchProof.SanityCheck and its result
    hashCalls     \* the last two calls of ProofDetail.Hash and their results

batchVars == <<blockInfos, batchTable, assigned, bpMutex, pc, loc, dbTx, result,
               now, hist>>

msgVars == <<proofMsg, lastCall, signer>>

pureVars == <<sanityCall, hashCalls>>

\* sql NULL in block.batch_id
NoBatch == 0

\* --------------------------------------------------------------- the store
Min(a, b) == IF a < b THEN a ELSE b

MaxOf(S) == IF S = {} THEN 0 ELSE CHOOSE x \in S : \A y \in S : y <= x

RECURSIVE SeqSet(_)
SeqSet(s) == IF s = <<>> THEN {} ELSE {Head(s)} \cup SeqSet(Tail(s))

IsUnbatched(b) == b.BatchID = NoBatch

\* orm.GetUnbatchedBlocks(fields, "order by number ASC LIMIT n")
GetUnbatchedBlocks(table, limit) ==
    LET un == SelectSeq(table, IsUnbatched)
    IN  SubSeq(un, 1, Min(Len(un), limit))

NoTx == [open |-> FALSE, batches |-> {}, ids |-> {}, batchID |-> NoBatch]

\* orm.Beginx(): a transaction with nothing written yet
Beginx == [open |-> TRUE, batches |-> {}, ids |-> {}, batchID |-> NoBatch]

\* orm.NewBatchInDBTx: the row is written inside the transaction; its id is
\* generated from the rows the transaction can see
NewBatchInDBTx(tx, table, startBlock, endBlock, parentHash, txNum, gasUsed) ==
    LET id == 1 + MaxOf({r.ID : r \in table \cup tx.batches})
        row == [ID |-> id, StartBlock |-> startBlock.Number,
                EndBlock |-> endBlock.Number, ParentHash |-> parentHash,
                TotalTxNum |-> txNum, TotalL2Gas |-> gasUsed]
    IN  [tx EXCEPT !.batches = @ \cup {row}, !.batchID = id]

\* orm.SetBatchIDForBlocksInDBTx: the updates are written inside the transaction
SetBatchIDForBlocksInDBTx(tx, blockIDs, batchID) ==
    [tx EXCEPT !.ids = @ \cup {<<blockIDs[i], batchID>> : i \in 1..Len(blockIDs)}]

\* dbTx.Commit(): every write of the transaction reaches the tables at once
CommitBlocks(table, tx) ==
    [i \in 1..Len(table) |->
        IF \E w \in tx.ids : w[1] = table[i].Number
        THEN [table[i] EXCEPT !.BatchID =
                 (CHOOSE w \in tx.ids : w[1] = table[i].Number)[2]]
        ELSE table[i]]

CommitBatches(table, tx) == table \cup tx.batches

\* ------------------------------------------------------- tryProposeBatch
\* the admission test without the block's own gas: gasUsed > batchGasThreshold
ExceedsBeforeAdding(gasUsed, blockGas) == GtU64(gasUsed, batchGasThreshold)

\* line 44: gasUsed+block.GasUsed > batchGasThreshold, in uint64 arithmetic
ExceedsThreshold(gasUsed, blockGas) ==
    GtU64(AddU64(gasUsed, blockGas), batchGasThreshold)

EmptyAcc == [idsToBatch |-> <<>>, blocksToBatch |-> <<>>,
             txNum |-> Zero64, gasUsed |-> Zero64]

\* lines 47-50: the block is added to the batch
AddBlock(acc, block) ==
    [idsToBatch    |-> Append(acc.idsToBatch, block.Number),
     blocksToBatch |-> Append(acc.blocksToBatch, block),
     txNum         |-> AddU64(acc.txNum, block.TxNum),
     gasUsed       |-> AddU64(acc.gasUsed, block.GasUsed)]

\* the loop with continue for break: a block that does not fit is skipped and
\* the blocks after it are still looked at
RECURSIVE AccumulateSkipping(_, _, _)
AccumulateSkipping(blocks, i, accIn) ==
    CHOOSE out \in
        {IF i > Len(blocks) THEN acc
         ELSE IF ExceedsThreshold(acc.gasUsed, blocks[i].GasUsed)
         THEN AccumulateSkipping(blocks, i + 1, acc)
         ELSE AccumulateSkipping(blocks, i + 1, AddBlock(acc, blocks[i])) :
            acc \in {accIn}} : TRUE

\* lines 43-51: add blocks into the batch until batchGasThreshold is reached;
\* acc holds idsToBatch, blocksToBatch, txNum and gasUsed before iteration i
\* (bound by the quantifier, so that it is evaluated once per iteration)
RECURSIVE Accumulate(_, _, _)
Accumulate(blocks, i, accIn) ==
    CHOOSE out \in
        {IF i > Len(blocks) THEN acc
         ELSE IF ExceedsThreshold(acc.gasUsed, blocks[i].GasUsed) THEN acc
         ELSE Accumulate(blocks, i + 1, AddBlock(acc, blocks[i])) :
            acc \in {accIn}} : TRUE

\* the deferral without the test that the prefix consumed every fetched block
ShouldDeferAnyPrefix(blocks, blocksToBatch, gasUsed, unixNow) ==
    /\ LtU64(gasUsed, batchGasThreshold)
    /\ blocks[1].BlockTimestamp + batchTimeSec > unixNow

\* the deferral without the age test: a light prefix is deferred at any age
ShouldDeferAtAnyAge(blocks, blocksToBatch, gasUsed, unixNow) ==
    /\ Len(blocksToBatch) = Len(blocks)
    /\ LtU64(gasUsed, batchGasThreshold)

\* the age test with >= for >: a block of exactly batchTimeSec is still deferred
ShouldDeferAtBoundary(blocks, blocksToBatch, gasUsed, unixNow) ==
    /\ Len(blocksToBatch) = Len(blocks)
    /\ LtU64(gasUsed, batchGasThreshold)
    /\ blocks[1].BlockTimestamp + batchTimeSec >= unixNow

\* lines 56-57: too little gas gathered and the first block is not old enough
ShouldDefer(blocks, blocksToBatch, gasUsed, unixNow) ==
    /\ Len(blocksToBatch) = Len(blocks)
    /\ LtU64(gasUsed, batchGasThreshold)
    /\ blocks[1].BlockTimestamp + batchTimeSec > unixNow

NoLoc == [blocks |-> <<>>, idsToBatch |-> <<>>, blocksToBatch |-> <<>>,
          txNum |-> Zero64, gasUsed |-> Zero64]

NoResult == [val |-> "none", line |-> 0]

\* what an invocation in flight remembers of the store: the unbatched blocks
\* when it was called, the batch rows and batch ids when it took the lock, and
\* the batch a rival invocation, started against the same unbatched blocks,
\* committed while this one was in flight
NoHist == [startSet |-> {}, snapBatches |-> {}, snapIDs |-> <<>>,
           rival |-> NoBatch]

UnbatchedNumbers(table) ==
    {table[i].Number : i \in {j \in 1..Len(table) : IsUnbatched(table[j])}}

BatchIDColumn(table) == [i \in 1..Len(table) |-> table[i].BatchID]

\* a return that leaves the mutex locked (Unlock not deferred)
ReturnKeepsLock(p, val, line) ==
    /\ pc' = [pc EXCEPT ![p] = "idle"]
    /\ bpMutex' = bpMutex
    /\ loc' = [loc EXCEPT ![p] = NoLoc]
    /\ result' = [result EXCEPT ![p] = [val |-> val, line |-> line]]
    /\ hist' = [hist EXCEPT ![p] = NoHist]

\* a return of tryProposeBatch at the given source line; the deferred
\* w.bpMutex.Unlock() of line 25 runs on every one of them
Return(p, val, line) ==
    /\ pc' = [pc EXCEPT ![p] = "idle"]
    /\ bpMutex' = 0
    /\ loc' = [loc EXCEPT ![p] = NoLoc]
    /\ result' = [result EXCEPT ![p] = [val |-> val, line |-> line]]
    /\ hist' = [hist EXCEPT ![p] = NoHist]

\* a goroutine calls w.tryProposeBatch()
Call(p) ==
    /\ UNCHANGED <<msgVars, pureVars>>
    /\ pc[p] = "idle"
    /\ pc' = [pc EXCEPT ![p] = "lock"]
    /\ result' = [result EXCEPT ![p] = NoResult]
    /\ hist' = [hist EXCEPT ![p] =
          [NoHist EXCEPT !.startSet = UnbatchedNumbers(blockInfos)]]
    /\ UNCHANGED <<blockInfos, batchTable, assigned, bpMutex, loc, dbTx, now>>

\* Lock() that does not wait for the holder
LockNoExclusion(p) ==
    /\ UNCHANGED <<msgVars, pureVars>>
    /\ pc[p] = "lock"
    /\ bpMutex' = p
    /\ pc' = [pc EXCEPT ![p] = "fetch"]
    /\ hist' = [hist EXCEPT ![p].snapBatches = batchTable,
                            ![p].snapIDs = BatchIDColumn(blockInfos)]
    /\ UNCHANGED <<blockInfos, batchTable, assigned, loc, dbTx, result, now>>

\* line 24: w.bpMutex.Lock() blocks until the mutex is free
Lock(p) ==
    /\ UNCHANGED <<msgVars, pureVars>>
    /\ pc[p] = "lock"
    /\ bpMutex = 0
    /\ bpMutex' = p
    /\ pc' = [pc EXCEPT ![p] = "fetch"]
    /\ hist' = [hist EXCEPT ![p].snapBatches = batchTable,
                            ![p].snapIDs = BatchIDColumn(blockInfos)]
    /\ UNCHANGED <<blockInfos, batchTable, assigned, loc, dbTx, result, now>>

\* the fetch without the empty guard of lines 34-36: blocks[0] of line 57
\* then panics with an index out of range
FetchNoEmptyGuard(p, ok) ==
    /\ UNCHANGED <<msgVars, pureVars>>
    /\ pc[p] = "fetch"
    /\ ok \in BOOLEAN
    /\
         LET blocks == GetUnbatchedBlocks(blockInfos, batchBlocksLimit) IN
         IF ~ok THEN Return(p, "ErrGetUnbatchedBlocks", 32)
         ELSE IF Len(blocks) = 0 THEN Return(p, "panic", 57)
         ELSE /\ loc' = [loc EXCEPT ![p].blocks = blocks]
              /\ pc' = [pc EXCEPT ![p] = "decide"]
              /\ UNCHANGED <<bpMutex, result, hist>>
    /\ UNCHANGED <<blockInfos, batchTable, assigned, dbTx, now>>

\* lines 27-36: fetch the unbatched blocks; a store error and an empty
\* result both return
Fetch(p, ok) ==
    /\ UNCHANGED <<msgVars, pureVars>>
    /\ pc[p] = "fetch"
    /\ ok \in BOOLEAN
    /\
         LET blocks == GetUnbatchedBlocks(blockInfos, batchBlocksLimit) IN
         IF ~ok THEN Return(p, "ErrGetUnbatchedBlocks", 32)
         ELSE IF Len(blocks) = 0 THEN Return(p, "nil", 35)
         ELSE /\ loc' = [loc EXCEPT ![p].blocks = blocks]
              /\ pc' = [pc EXCEPT ![p] = "decide"]
              /\ UNCHANGED <<bpMutex, result, hist>>
    /\ UNCHANGED <<blockInfos, batchTable, assigned, dbTx, now>>

\* lines 38-51: the prefix accumulated from the blocks p fetched
Accumulated(p) == Accumulate(loc[p].blocks, 1, EmptyAcc)

\* lines 53-63: what the invocation does with the accumulated prefix
Decision(p) ==
    IF ShouldDefer(loc[p].blocks, Accumulated(p).blocksToBatch,
                   Accumulated(p).gasUsed, now)
    THEN "defer"
    ELSE IF Len(Accumulated(p).blocksToBatch) = 0 THEN "panic" ELSE "propose"

\* lines 38-63: accumulate the prefix, then defer, panic or go on to
\* createBatchForBlocks
Decide(p) ==
    /\ UNCHANGED <<msgVars, pureVars>>
    /\ pc[p] = "decide"
    /\ \/ /\ Decision(p) = "defer"
          /\ Return(p, "nil", 58)
       \/ /\ Decision(p) = "panic"
          /\ Return(p, "panic", 62)
       \/ /\ Decision(p) = "propose"
          /\ loc' = [loc EXCEPT ![p] =
                [blocks        |-> loc[p].blocks,
                 idsToBatch    |-> Accumulated(p).idsToBatch,
                 blocksToBatch |-> Accumulated(p).blocksToBatch,
                 txNum         |-> Accumulated(p).txNum,
                 gasUsed       |-> Accumulated(p).gasUsed]]
          /\ pc' = [pc EXCEPT ![p] = "begin"]
          /\ UNCHANGED <<bpMutex, result, hist>>
    /\ UNCHANGED <<blockInfos, batchTable, assigned, dbTx, now>>

\* -------------------------------------------------- createBatchForBlocks
\* lines 69-72: w.orm.Beginx()
BeginTx(p, ok) ==
    /\ UNCHANGED <<msgVars, pureVars>>
    /\ pc[p] = "begin"
    /\ ok \in BOOLEAN
    /\
         IF ok
         THEN /\ dbTx' = [dbTx EXCEPT ![p] = Beginx]
              /\ pc' = [pc EXCEPT ![p] = "newbatch"]
              /\ UNCHANGED <<bpMutex, loc, result, hist>>
         ELSE /\ Return(p, "ErrBeginx", 71)
              /\ UNCHANGED dbTx
    /\ UNCHANGED <<blockInfos, batchTable, assigned, now>>

\* the batch row written straight to the table, outside the transaction
NewBatchNoTx(p, ok) ==
    /\ UNCHANGED <<msgVars, pureVars>>
    /\ pc[p] = "newbatch"
    /\ ok \in BOOLEAN
    /\
         LET blocks == loc[p].blocksToBatch
             tx == NewBatchInDBTx(dbTx[p], batchTable, blocks[1],
                                  blocks[Len(blocks)], blocks[1].ParentHash,
                                  loc[p].txNum, loc[p].gasUsed)
         IN  IF ok
             THEN /\ batchTable' = batchTable \cup tx.batches
                  /\ dbTx' = [dbTx EXCEPT ![p] = [tx EXCEPT !.batches = {}]]
                  /\ pc' = [pc EXCEPT ![p] = "setids"]
                  /\ UNCHANGED <<bpMutex, loc, result, hist>>
             ELSE /\ dbTx' = [dbTx EXCEPT ![p] = NoTx]
                  /\ Return(p, "ErrNewBatchInDBTx", 88)
                  /\ UNCHANGED batchTable
    /\ UNCHANGED <<blockInfos, assigned, now>>

\* lines 83-89: the batch row is written in the transaction; on an error the
\* deferred function of lines 75-81 rolls the transaction back
NewBatch(p, ok) ==
    /\ UNCHANGED <<msgVars, pureVars>>
    /\ pc[p] = "newbatch"
    /\ ok \in BOOLEAN
    /\
         LET blocks == loc[p].blocksToBatch
             startBlock == blocks[1]
             endBlock == blocks[Len(blocks)]
         IN  IF ok
             THEN /\ dbTx' = [dbTx EXCEPT ![p] =
                        NewBatchInDBTx(dbTx[p], batchTable, startBlock, endBlock,
                                       blocks[1].ParentHash, loc[p].txNum,
                                       loc[p].gasUsed)]
                  /\ pc' = [pc EXCEPT ![p] = "setids"]
                  /\ UNCHANGED <<bpMutex, loc, result, hist>>
             ELSE /\ dbTx' = [dbTx EXCEPT ![p] = NoTx]
                  /\ Return(p, "ErrNewBatchInDBTx", 88)
    /\ UNCHANGED <<blockInfos, batchTable, assigned, now>>

\* the batch id set on the blocks outside the transaction
SetBatchIDNoTx(p, ok) ==
    /\ UNCHANGED <<msgVars, pureVars>>
    /\ pc[p] = "setids"
    /\ ok \in BOOLEAN
    /\
         IF ok
         THEN /\ blockInfos' = CommitBlocks(blockInfos,
                    SetBatchIDForBlocksInDBTx(dbTx[p], loc[p].idsToBatch,
                                              dbTx[p].batchID))
              /\ pc' = [pc EXCEPT ![p] = "commit"]
              /\ UNCHANGED <<bpMutex, loc, result, hist, dbTx>>
         ELSE /\ dbTx' = [dbTx EXCEPT ![p] = NoTx]
              /\ Return(p, "ErrSetBatchIDForBlocksInDBTx", 92)
              /\ UNCHANGED blockInfos
    /\ UNCHANGED <<batchTable, assigned, now>>

\* lines 91-93: the batch id is set on the blocks, in the same transaction
SetBatchID(p, ok) ==
    /\ UNCHANGED <<msgVars, pureVars>>
    /\ pc[p] = "setids"
    /\ ok \in BOOLEAN
    /\
         IF ok
         THEN /\ dbTx' = [dbTx EXCEPT ![p] =
                    SetBatchIDForBlocksInDBTx(dbTx[p], loc[p].idsToBatch,
                                              dbTx[p].batchID)]
              /\ pc' = [pc EXCEPT ![p] = "commit"]
              /\ UNCHANGED <<bpMutex, loc, result, hist>>
         ELSE /\ dbTx' = [dbTx EXCEPT ![p] = NoTx]
              /\ Return(p, "ErrSetBatchIDForBlocksInDBTx", 92)
    /\ UNCHANGED <<blockInfos, batchTable, assigned, now>>

\* lines 95-96: dbTx.Commit(); a failed commit is rolled back like any other
\* error of the transaction
Commit(p, ok) ==
    /\ UNCHANGED <<msgVars, pureVars>>
    /\ pc[p] = "commit"
    /\ ok \in BOOLEAN
    /\
         IF ok
         THEN /\ blockInfos' = CommitBlocks(blockInfos, dbTx[p])
              /\ batchTable' = CommitBatches(batchTable, dbTx[p])
              /\ assigned' = [n \in DOMAIN assigned |->
                    assigned[n] \cup {w[2] : w \in {v \in dbTx[p].ids : v[1] = n}}]
              /\ dbTx' = [dbTx EXCEPT ![p] = NoTx]
              /\ pc' = [pc EXCEPT ![p] = "idle"]
              /\ bpMutex' = 0
              /\ loc' = [loc EXCEPT ![p] = NoLoc]
              /\ result' = [result EXCEPT ![p] = [val |-> "nil", line |-> 96]]
              /\ hist' = [q \in Procs |->
                    IF q # p /\ pc[q] # "idle"
                       /\ hist[q].startSet = hist[p].startSet
                    THEN [hist[q] EXCEPT !.rival = dbTx[p].batchID]
                    ELSE IF q = p THEN NoHist ELSE hist[q]]
         ELSE /\ dbTx' = [dbTx EXCEPT ![p] = NoTx]
              /\ Return(p, "ErrCommit", 96)
              /\ UNCHANGED <<blockInfos, batchTable, assigned>>
    /\ UNCHANGED now

\* ------------------------------------------------------------ environment
\* gas used by the blocks the block fetcher stores
GasChoices == {U64Of(1500000), U64Of(3000001), MaxUint64}

\* the instants at which the clock is read
TimePoints == {t \in 0..MaxTime : t % batchTimeSec \in {0, 1, batchTimeSec - 1}}

NewBlock(n, gas, ts) ==
    [Number |-> n, Hash |-> n, ParentHash |-> n - 1, GasUsed |-> gas,
     TxNum |-> U64Of(2 ^ (n - 1)), BlockTimestamp |-> ts, BatchID |-> NoBatch]

\* the block fetcher appends the next block, unbatched, stamped with the
\* current time
InsertBlock ==
    /\ UNCHANGED <<msgVars, pureVars>>
    /\ Len(blockInfos) < MaxBlocks
    /\ now + batchTimeSec <= MaxTime
    /\ \E gas \in GasChoices :
         blockInfos' = Append(blockInfos, NewBlock(Len(blockInfos) + 1, gas, now))
    /\ assigned' = Append(assigned, {})
    /\ UNCHANGED <<batchTable, bpMutex, pc, loc, dbTx, result, now, hist>>

\* time passes
Tick ==
    /\ UNCHANGED <<msgVars, pureVars>>
    /\ \E t \in TimePoints :
         /\ t > now
         /\ \A u \in TimePoints : u > now => t <= u
         /\ now' = t
    /\ UNCHANGED <<blockInfos, batchTable, assigned, bpMutex, pc, loc, dbTx,
                   result, hist>>

\* the store of the batch formation example: four unbatched blocks
ExampleGas == <<U64Of(1000000), U64Of(1000000), U64Of(1500000), U64Of(500000)>>

ExampleStore == [n \in 1..4 |-> NewBlock(n, ExampleGas[n], 0)]

\* ======================================================= proof messages
\* private keys a prover may sign with
NumKeys == 2

PrivKeys == 1..NumKeys

\* a private key crypto.Sign rejects (D = 0)
InvalidKey == 0

\* ------------------------------------------------------------------- rlp
\* Byte strings are sequences of 0..255.
RECURSIVE BigEndian(_)
BigEndian(n) == IF n = 0 THEN <<>> ELSE BigEndian(n \div 256) \o <<n % 256>>

\* rlp of a byte string (Go string, []byte, [32]byte)
RlpString(b) ==
    IF Len(b) = 1 /\ b[1] < 128 THEN b
    ELSE IF Len(b) <= 55 THEN <<128 + Len(b)>> \o b
    ELSE <<183 + Len(BigEndian(Len(b)))>> \o BigEndian(Len(b)) \o b

\* rlp of an unsigned integer: its big-endian bytes without leading zeros
RlpUint(n) == RlpString(BigEndian(n))

RlpBool(v) == IF v THEN <<1>> ELSE <<128>>

RECURSIVE Concat(_)
Concat(items) == IF items = <<>> THEN <<>> ELSE Head(items) \o Concat(Tail(items))

\* rlp of a list (a struct or a slice) whose items are already encoded
RlpList(items) ==
    LET payload == Concat(items)
    IN  IF Len(payload) <= 55 THEN <<192 + Len(payload)>> \o payload
        ELSE <<247 + Len(BigEndian(Len(payload)))>> \o BigEndian(Len(payload))
                 \o payload

\* a nil pointer; every record of the model has a field nil telling it apart
IsNil(ptr) == ptr.nil

NilChunkInfo ==
    [nil |-> TRUE, ChainID |-> 0, PrevStateRoot |-> <<>>, PostStateRoot |-> <<>>,
     WithdrawRoot |-> <<>>, DataHash |-> <<>>, IsPadding |-> FALSE,
     TxBytes |-> <<>>]

NilChunkProof ==
    [nil |-> TRUE, StorageTrace |-> <<>>, Protocol |-> <<>>, Proof |-> <<>>,
     Instances |-> <<>>, Vk |-> <<>>, ChunkInfo |-> NilChunkInfo,
     GitVersion |-> <<>>, RowUsages |-> <<>>]

NilBatchProof ==
    [nil |-> TRUE, Proof |-> <<>>, Instances |-> <<>>, Vk |-> <<>>,
     GitVersion |-> <<>>]

\* rlp of a *ChunkInfo: a nil pointer to a struct is the empty list
RlpChunkInfo(c) ==
    IF IsNil(c) THEN <<192>>
    ELSE RlpList(<<RlpUint(c.ChainID), RlpString(c.PrevStateRoot),
                   RlpString(c.PostStateRoot), RlpString(c.WithdrawRoot),
                   RlpString(c.DataHash), RlpBool(c.IsPadding),
                   RlpString(c.TxBytes)>>)

RlpRowUsage(r) == RlpList(<<RlpString(r.Name), RlpUint(r.RowNumber)>>)

RlpChunkProof(c) ==
    IF IsNil(c) THEN <<192>>
    ELSE RlpList(<<RlpString(c.StorageTrace), RlpString(c.Protocol),
                   RlpString(c.Proof), RlpString(c.Instances), RlpString(c.Vk),
                   RlpChunkInfo(c.ChunkInfo), RlpString(c.GitVersion),
                   RlpList([i \in 1..Len(c.RowUsages) |->
                               RlpRowUsage(c.RowUsages[i])])>>)

RlpBatchProof(b) ==
    IF IsNil(b) THEN <<192>>
    ELSE RlpList(<<RlpString(b.Proof), RlpString(b.Instances), RlpString(b.Vk),
                   RlpString(b.GitVersion)>>)

\* the encoding without the last field of ProofDetail
RlpProofDetailNoError(z) ==
    RlpList(<<RlpString(z.ID), RlpUint(z.Type), RlpUint(z.Status),
              RlpChunkProof(z.ChunkProof), RlpBatchProof(z.BatchProof)>>)

\* rlp.EncodeToBytes(z) of a *ProofDetail
RlpProofDetail(z) ==
    RlpList(<<RlpString(z.ID), RlpUint(z.Type), RlpUint(z.Status),
              RlpChunkProof(z.ChunkProof), RlpBatchProof(z.BatchProof),
              RlpString(z.Error)>>)

\* crypto.Keccak256Hash: the digest stands for its preimage (no collisions)
Keccak256Hash(byt) == [preimage |-> byt]

\* ProofDetail.Hash
Hash(z) == Keccak256Hash(RlpProofDetail(z))

ProofTypeChunk == 1
ProofTypeBatch == 2
StatusOk == 0
StatusProofError == 1

\* the ProofDetail values messages carry
ChunkDetail ==
    [ID |-> <<49>>, Type |-> ProofTypeChunk, Status |-> StatusOk,
     ChunkProof |-> [NilChunkProof EXCEPT !.nil = FALSE, !.Proof = <<7, 7>>],
     BatchProof |-> NilBatchProof, Error |-> <<>>]

BatchDetail ==
    [ID |-> <<50>>, Type |-> ProofTypeBatch, Status |-> StatusOk,
     ChunkProof |-> NilChunkProof,
     BatchProof |-> [NilBatchProof EXCEPT !.nil = FALSE, !.Proof = <<9>>],
     Error |-> <<>>]

FailedDetail ==
    [ID |-> <<49>>, Type |-> ProofTypeChunk, Status |-> StatusProofError,
     ChunkProof |-> NilChunkProof, BatchProof |-> NilBatchProof,
     Error |-> <<101>>]

Details == {ChunkDetail, BatchDetail, FailedDetail}

\* ------------------------------------------------------------ secp256k1
\* Byte strings of the signature scheme: their length and what they hold.
EmptyBytes == [len |-> 0, body |-> <<>>]

\* the 65 bytes R || S || V crypto.Sign returns for a digest and a key
SignatureOf(hash, priv) == [len |-> 65, body |-> <<hash, priv>>]

\* a few bytes that are no signature
ShortBytes == [len |-> 2, body |-> <<>>]

\* the public key of a private key
PublicKeyOf(priv) == [priv |-> priv, recovered |-> <<>>]

\* crypto.CompressPubkey: 33 bytes
CompressPubkey(pub) == [len |-> 33, body |-> <<pub>>]

\* crypto.Sign(hash, priv): fails on an invalid key
CryptoSign(hash, priv) ==
    IF priv = InvalidKey THEN [err |-> "error", sig |-> EmptyBytes]
    ELSE [err |-> "nil", sig |-> SignatureOf(hash, priv)]

\* A valid signature with a single byte changed, in R || S ("RS") or in the
\* recovery id V ("V"). What the changed bytes are worth depends on the byte:
\* they recover to no key at all ("norecovery": R is no point of the curve, S
\* is out of range, V is not a recovery id), they recover to another key
\* ("otherkey"), or they recover to another key with S in the upper half of
\* the group order, which crypto.VerifySignature rejects ("highS").
FlipParts == {"RS", "V"}

FlipFates(part) ==
    IF part = "V" THEN {"norecovery", "otherkey"}
    ELSE {"norecovery", "otherkey", "highS"}

FlipByte(sig, part, fate) ==
    [len |-> sig.len, body |-> <<sig.body[1], sig.body[2], part, fate>>]

IsFlipped(sig) == Len(sig.body) = 4

\* crypto.SigToPub(hash, sig): the key under which sig is a signature of
\* hash. It is the signer's key when hash is the digest that was signed, and
\* some other key of the curve when it is not or when a byte was changed.
SigToPub(hash, sig) ==
    IF sig.len # 65
    THEN [err |-> "error", pub |-> PublicKeyOf(InvalidKey)]
    ELSE IF IsFlipped(sig)
    THEN IF sig.body[4] = "norecovery"
         THEN [err |-> "error", pub |-> PublicKeyOf(InvalidKey)]
         ELSE [err |-> "nil",
               pub |-> [priv |-> InvalidKey,
                        recovered |-> <<hash, sig.body[1], sig.body[2],
                                        sig.body[3]>>]]
    ELSE IF sig.body[1] = hash
    THEN [err |-> "nil", pub |-> PublicKeyOf(sig.body[2])]
    ELSE [err |-> "nil",
          pub |-> [priv |-> InvalidKey,
                   recovered |-> <<hash, sig.body[1], sig.body[2]>>]]

\* sig[:len(sig)-1]: the recovery id is dropped, and a change of it with it
DropLastByte(sig) ==
    IF IsFlipped(sig) /\ sig.body[3] = "V"
    THEN [len |-> sig.len - 1, body |-> <<sig.body[1], sig.body[2]>>]
    ELSE [sig EXCEPT !.len = @ - 1]

\* crypto.VerifySignature(pubkey, hash, sig64): sig64 is R || S; true exactly
\* for the keys R || S recovers to over hash (one per recovery id), and false
\* for every key when S is in the upper half of the group order
VerifySignature(pubkey, hash, sig64) ==
    /\ sig64.len = 64
    /\ pubkey.len = 33
    /\ LET key == pubkey.body[1]
           recovered == SigToPub(hash, [sig64 EXCEPT !.len = 65])
       IN  IF IsFlipped(sig64)
           THEN sig64.body[4] = "otherkey" /\ recovered.pub = key
           ELSE \/ recovered.pub = key
                \/ key.recovered = <<hash, sig64.body[1], sig64.body[2], "V">>

\* ----------------------------------------------------------- hex strings
\* A string of hex digits: whether it starts with 0x, the bytes its digits
\* spell, and whether characters that are no hex digits follow.
EmptyString == [prefix |-> FALSE, digits |-> EmptyBytes, junk |-> FALSE]

\* hexutil.Encode(b): "0x" and the digits of b
HexutilEncode(b) == [prefix |-> TRUE, digits |-> b, junk |-> FALSE]

\* common.Bytes2Hex(b): the digits of b, no prefix
Bytes2Hex(b) == [prefix |-> FALSE, digits |-> b, junk |-> FALSE]

\* common.FromHex(s): strips 0x and decodes; hex.DecodeString's error is
\* dropped and the bytes decoded before it are returned
FromHex(str) == str.digits

\* a string that is not hex at all
JunkString == [prefix |-> FALSE, digits |-> EmptyBytes, junk |-> TRUE]

\* ---------------------------------------------------------------- ProofMsg
NoCall == [op |-> "none", err |-> "nil", ok |-> FALSE, val |-> EmptyString]

NewProofMsg(detail) ==
    [ProofDetail |-> detail, Signature |-> EmptyString, publicKey |-> EmptyString]

\* ProofMsg.Sign, lines 81-92
SignMsg(priv) ==
    LET hash == Hash(proofMsg.ProofDetail)
        signed == CryptoSign(hash, priv)
    IN  /\ IF signed.err # "nil"
           THEN /\ lastCall' = [op |-> "Sign", err |-> signed.err, ok |-> FALSE,
                                val |-> EmptyString]
                /\ UNCHANGED <<proofMsg, signer>>
           ELSE /\ proofMsg' = [proofMsg EXCEPT
                                   !.Signature = HexutilEncode(signed.sig)]
                /\ lastCall' = [op |-> "Sign", err |-> "nil", ok |-> TRUE,
                                val |-> EmptyString]
                /\ signer' = priv
        /\ UNCHANGED <<batchVars, pureVars>>

\* ProofMsg.Verify, lines 95-111
VerifyMsg ==
    LET hash == Hash(proofMsg.ProofDetail)
        sig == FromHex(proofMsg.Signature)
        recovered == SigToPub(hash, sig)
        publicKey == IF proofMsg.publicKey = EmptyString
                     THEN Bytes2Hex(CompressPubkey(recovered.pub))
                     ELSE proofMsg.publicKey
    IN  /\ IF proofMsg.publicKey = EmptyString /\ recovered.err # "nil"
           THEN /\ lastCall' = [op |-> "Verify", err |-> recovered.err,
                                ok |-> FALSE, val |-> EmptyString]
                /\ UNCHANGED proofMsg
           ELSE IF sig.len = 0
           THEN \* sig[:len(sig)-1] on an empty slice: slice bounds out of range
                /\ lastCall' = [op |-> "Verify", err |-> "panic", ok |-> FALSE,
                                val |-> EmptyString]
                /\ UNCHANGED proofMsg
           ELSE /\ proofMsg' = [proofMsg EXCEPT !.publicKey = publicKey]
                /\ lastCall' = [op |-> "Verify", err |-> "nil",
                                ok |-> VerifySignature(FromHex(publicKey), hash,
                                                       DropLastByte(sig)),
                                val |-> EmptyString]
        /\ UNCHANGED <<signer, batchVars, pureVars>>

\* ProofMsg.PublicKey, lines 114-131
PublicKeyMsg ==
    LET hash == Hash(proofMsg.ProofDetail)
        sig == FromHex(proofMsg.Signature)
        recovered == SigToPub(hash, sig)
    IN  /\ IF proofMsg.publicKey # EmptyString
           THEN /\ lastCall' = [op |-> "PublicKey", err |-> "nil", ok |-> TRUE,
                                val |-> proofMsg.publicKey]
                /\ UNCHANGED proofMsg
           ELSE IF recovered.err # "nil"
           THEN /\ lastCall' = [op |-> "PublicKey", err |-> recovered.err,
                                ok |-> FALSE, val |-> EmptyString]
                /\ UNCHANGED proofMsg
           ELSE /\ proofMsg' = [proofMsg EXCEPT !.publicKey =
                                   Bytes2Hex(CompressPubkey(recovered.pub))]
                /\ lastCall' = [op |-> "PublicKey", err |-> "nil", ok |-> TRUE,
                                val |-> Bytes2Hex(CompressPubkey(recovered.pub))]
        /\ UNCHANGED <<signer, batchVars, pureVars>>

\* hex digits followed by characters that are no hex digits
WithTrailingJunk(str) == [str EXCEPT !.junk = TRUE]

\* the signature strings a message may be given: none, no hex, too short,
\* the signatures of the keys over the details, these signatures followed by
\* characters that are no hex digits, and these signatures with a single byte
\* changed
SignatureStrings ==
    {EmptyString, JunkString, HexutilEncode(ShortBytes)}
    \cup {HexutilEncode(SignatureOf(Hash(d), k)) : d \in Details, k \in PrivKeys}
    \cup {WithTrailingJunk(HexutilEncode(SignatureOf(Hash(d), k))) :
             d \in Details, k \in PrivKeys}
    \cup UNION {{HexutilEncode(FlipByte(SignatureOf(Hash(d), k), part, fate)) :
                    fate \in FlipFates(part)} :
                 d \in Details, k \in PrivKeys, part \in FlipParts}

\* a message is built (or decoded from the wire) with a detail and a
\* signature string; its publicKey is not set
NewMsg ==
    /\ \E d \in Details, str \in SignatureStrings :
          proofMsg' = [NewProofMsg(d) EXCEPT !.Signature = str]
    /\ lastCall' = NoCall
    /\ signer' = InvalidKey
    /\ UNCHANGED <<batchVars, pureVars>>

\* the exported field Signature of the message is assigned
SetSignature ==
    /\ \E str \in SignatureStrings :
          proofMsg' = [proofMsg EXCEPT !.Signature = str]
    /\ lastCall' = NoCall
    /\ signer' = InvalidKey
    /\ UNCHANGED <<batchVars, pureVars>>

MsgNext ==
    \/ \E priv \in PrivKeys \cup {InvalidKey} : SignMsg(priv)
    \/ VerifyMsg
    \/ PublicKeyMsg
    \/ NewMsg
    \/ SetSignature

\* ------------------------------------------------------------ SanityCheck
\* BatchProof.SanityCheck, lines 216-229: the error it returns, "nil" for none
SanityCheckNoLengthTest(ap) ==
    IF IsNil(ap) THEN "agg_proof is nil"
    ELSE IF Len(ap.Proof) = 0 THEN "proof not ready"
    ELSE "nil"

SanityCheck(ap) ==
    IF IsNil(ap) THEN "agg_proof is nil"
    ELSE IF Len(ap.Proof) = 0 THEN "proof not ready"
    ELSE IF Len(ap.Proof) % 32 # 0 THEN "proof buffer has wrong length"
    ELSE "nil"

\* n bytes
ZeroBytes(n) == [i \in 1..n |-> 0]

\* the lengths of Proof the check is called with
ProofLens == {0, 1, 31, 32, 33, 63, 64, 65, 96}

\* the batch proofs SanityCheck is called on
BatchProofs ==
    {NilBatchProof}
    \cup {[nil |-> FALSE, Proof |-> ZeroBytes(n), Instances |-> inst,
           Vk |-> vk, GitVersion |-> ver] :
             n \in ProofLens, inst \in {<<>>, <<1>>}, vk \in {<<>>, <<2>>},
             ver \in {<<>>, <<118>>}}

NoSanityCall == [called |-> FALSE, ap |-> NilBatchProof, err |-> "nil"]

\* ap.SanityCheck() is called
SanityCheckCall ==
    /\ \E ap \in BatchProofs :
          sanityCall' = [called |-> TRUE, ap |-> ap, err |-> SanityCheck(ap)]
    /\ UNCHANGED <<hashCalls, batchVars, msgVars>>

\* ------------------------------------------------------------------- Hash
\* a common.Hash: 32 bytes
Hash32(b) == [i \in 1..32 |-> b]

FullChunkInfo ==
    [nil |-> FALSE, ChainID |-> 1, PrevStateRoot |-> Hash32(1),
     PostStateRoot |-> Hash32(2), WithdrawRoot |-> Hash32(3),
     DataHash |-> Hash32(4), IsPadding |-> FALSE, TxBytes |-> <<5>>]

FullChunkProof ==
    [nil |-> FALSE, StorageTrace |-> <<1>>, Protocol |-> <<2>>, Proof |-> <<3>>,
     Instances |-> <<4>>, Vk |-> <<5>>, ChunkInfo |-> FullChunkInfo,
     GitVersion |-> <<6>>, RowUsages |-> <<[Name |-> <<7>>, RowNumber |-> 8]>>]

FullBatchProof ==
    [nil |-> FALSE, Proof |-> <<9>>, Instances |-> <<10>>, Vk |-> <<11>>,
     GitVersion |-> <<12>>]

\* a ProofDetail with every field set
FullDetail ==
    [ID |-> <<49>>, Type |-> ProofTypeChunk, Status |-> StatusOk,
     ChunkProof |-> FullChunkProof, BatchProof |-> FullBatchProof,
     Error |-> <<101>>]

ChunkProofByteFields ==
    {"StorageTrace", "Protocol", "Proof", "Instances", "Vk", "GitVersion"}

BatchProofByteFields == {"Proof", "Instances", "Vk", "GitVersion"}

ChunkInfoHashFields ==
    {"PrevStateRoot", "PostStateRoot", "WithdrawRoot", "DataHash"}

\* FullDetail with a single field of ProofDetail changed
TopVariants ==
    {[FullDetail EXCEPT !.ID = <<50>>], [FullDetail EXCEPT !.ID = <<>>],
     [FullDetail EXCEPT !.ID = <<49, 49>>],
     [FullDetail EXCEPT !.Type = ProofTypeBatch], [FullDetail EXCEPT !.Type = 0],
     [FullDetail EXCEPT !.Status = StatusProofError],
     [FullDetail EXCEPT !.ChunkProof = NilChunkProof],
     [FullDetail EXCEPT !.BatchProof = NilBatchProof],
     [FullDetail EXCEPT !.Error = <<>>], [FullDetail EXCEPT !.Error = <<102>>]}

\* FullDetail with a single field of its ChunkProof changed
ChunkProofVariants ==
    {[FullDetail EXCEPT !.ChunkProof[f] = v] :
        f \in ChunkProofByteFields, v \in {<<>>, <<99>>}}
    \cup {[FullDetail EXCEPT !.ChunkProof.ChunkInfo = NilChunkInfo],
          [FullDetail EXCEPT !.ChunkProof.RowUsages = <<>>],
          [FullDetail EXCEPT !.ChunkProof.RowUsages[1].Name = <<>>],
          [FullDetail EXCEPT !.ChunkProof.RowUsages[1].RowNumber = 0],
          [FullDetail EXCEPT !.ChunkProof.RowUsages =
              Append(@, [Name |-> <<7>>, RowNumber |-> 8])]}

\* FullDetail with a single field of its ChunkInfo changed
ChunkInfoVariants ==
    {[FullDetail EXCEPT !.ChunkProof.ChunkInfo[f] = Hash32(9)] :
        f \in ChunkInfoHashFields}
    \cup {[FullDetail EXCEPT !.ChunkProof.ChunkInfo.ChainID = 0],
          [FullDetail EXCEPT !.ChunkProof.ChunkInfo.ChainID = 256],
          [FullDetail EXCEPT !.ChunkProof.ChunkInfo.IsPadding = TRUE],
          [FullDetail EXCEPT !.ChunkProof.ChunkInfo.TxBytes = <<>>]}

\* FullDetail with a single field of its BatchProof changed
BatchProofVariants ==
    {[FullDetail EXCEPT !.BatchProof[f] = v] :
        f \in BatchProofByteFields, v \in {<<>>, <<99>>}}

\* FullDetail with the contents of two neighbouring fields exchanged or moved
MovedVariants ==
    {[FullDetail EXCEPT !.ID = <<101>>, !.Error = <<49>>],
     [FullDetail EXCEPT !.ChunkProof.Proof = <<>>,
                        !.ChunkProof.Instances = <<3, 4>>],
     [FullDetail EXCEPT !.ChunkProof.Vk = <<>>,
                        !.BatchProof.Proof = <<5, 9>>],
     [FullDetail EXCEPT !.ChunkProof = NilChunkProof,
                        !.BatchProof = NilBatchProof]}

\* the ProofDetail values Hash is called on
HashDetails ==
    Details \cup {FullDetail} \cup TopVariants \cup ChunkProofVariants
    \cup ChunkInfoVariants \cup BatchProofVariants \cup MovedVariants

\* z.Hash() is called; the last two calls are remembered
HashCall ==
    /\ \E z \in HashDetails :
          LET call == [z |-> z, hash |-> Hash(z)]
          IN  hashCalls' = IF Len(hashCalls) < 2 THEN Append(hashCalls, call)
                           ELSE <<hashCalls[2], call>>
    /\ UNCHANGED <<sanityCall, batchVars, msgVars>>

Init ==
    /\ blockInfos \in {<<>>, ExampleStore}
    /\ batchTable = {}
    /\ assigned = [n \in 1..Len(blockInfos) |-> {}]
    /\ bpMutex = 0
    /\ pc = [p \in Procs |-> "idle"]
    /\ loc = [p \in Procs |-> NoLoc]
    /\ dbTx = [p \in Procs |-> NoTx]
    /\ result = [p \in Procs |-> NoResult]
    /\ now = 0
    /\ hist = [p \in Procs |-> NoHist]
    /\ proofMsg = NewProofMsg(ChunkDetail)
    /\ lastCall = NoCall
    /\ signer = InvalidKey
    /\ sanityCall = NoSanityCall
    /\ hashCalls = <<>>

\* a step of goroutine p; ok tells whether the store call of the step succeeds
Step(p, ok) ==
    \/ Call(p)
    \/ Lock(p)
    \/ Fetch(p, ok)
    \/ Decide(p)
    \/ BeginTx(p, ok)
    \/ NewBatch(p, ok)
    \/ SetBatchID(p, ok)
    \/ Commit(p, ok)

Next ==
    \/ \E p \in Procs, ok \in BOOLEAN : Step(p, ok)
    \/ InsertBlock
    \/ Tick

vars == <<batchVars, msgVars, pureVars>>

Spec == Init /\ [][Next]_vars

\* the calls made on one proof message
MsgSpec == Init /\ [][MsgNext]_vars

\* the calls of BatchProof.SanityCheck
SanitySpec == Init /\ [][SanityCheckCall]_vars

\* the calls of ProofDetail.Hash
HashSpec == Init /\ [][HashCall]_vars

\* the goroutine of the proposer loop, which calls tryProposeBatch again and
\* again
Proposer == CHOOSE p \in Procs : TRUE

\* the store never fails
NextLive ==
    \/ Step(Proposer, TRUE)
    \/ InsertBlock
    \/ Tick

\* the proposer keeps calling tryProposeBatch and keeps being scheduled, and
\* time advances
LiveSpec ==
    /\ Init
    /\ [][NextLive]_vars
    /\ WF_vars(Step(Proposer, TRUE))
    /\ WF_vars(Tick)

\* goroutines calling tryProposeBatch against a store that may fail, with at
\* most one block arriving
NextLock ==
    \/ \E p \in Procs, ok \in BOOLEAN : Step(p, ok)
    \/ Len(blockInfos) = 0 /\ InsertBlock
    \/ Tick

\* every goroutine keeps being scheduled, and a goroutine waiting in Lock()
\* gets the mutex if it is free again and again (sync.Mutex hands the mutex to
\* a waiter that has been starving)
LockSpec ==
    /\ Init
    /\ [][NextLock]_vars
    /\ \A p \in Procs :
          /\ WF_vars(\E ok \in BOOLEAN : Step(p, ok))
          /\ SF_vars(Lock(p))

\* ================================================================ claims
InFlightAfterFetch == {"decide", "begin", "newbatch", "setids", "commit"}

InCreateBatch == {"begin", "newbatch", "setids", "commit"}

ErrVals == {"ErrGetUnbatchedBlocks", "ErrBeginx", "ErrNewBatchInDBTx",
            "ErrSetBatchIDForBlocksInDBTx", "ErrCommit"}

\* the invocation of p returns in this step
Returns(p) == pc[p] # "idle" /\ pc'[p] = "idle"

\* the invocation of p commits its transaction in this step
Commits(p) == pc[p] = "commit" /\ pc'[p] = "idle" /\ result'[p].val = "nil"

\* the block numbers a committed batch id is set on
BlocksOfBatch(table, id) ==
    {table[i].Number : i \in {j \in 1..Len(table) : table[j].BatchID = id}}

\* C1: under every interleaving of concurrent tryProposeBatch invocations no
\* block is assigned to two different batches: no block ever had two batch ids
\* committed on it, and no invocation in flight holds as unbatched a block
\* that carries a batch id.
C1_NoBlockInTwoBatches ==
    /\ \A n \in DOMAIN assigned : Cardinality(assigned[n]) <= 1
    /\ \A p \in Procs :
         pc[p] \in InFlightAfterFetch =>
            \A i \in 1..Len(loc[p].blocks) :
               blockInfos[loc[p].blocks[i].Number].BatchID = NoBatch

\* one invocation is about to commit while another waits for the lock and a
\* batch is already committed
C1_Witness ==
    \E p, q \in Procs :
       /\ pc[p] = "commit" /\ pc[q] = "lock"
       /\ batchTable # {}
       /\ UnbatchedNumbers(blockInfos) # {}

\* C3: in every committed state of the store a batch row exists if and only
\* if every block of its range carries its id: each row's blocks carry the
\* row's id, and each batch id on a block is the id of a row covering it.
C3_CommitIsAtomic ==
    /\ \A r \in batchTable :
         \A n \in r.StartBlock..r.EndBlock :
            n <= Len(blockInfos) /\ blockInfos[n].BatchID = r.ID
    /\ \A n \in 1..Len(blockInfos) :
         blockInfos[n].BatchID # NoBatch =>
            \E r \in batchTable :
               r.ID = blockInfos[n].BatchID /\ n \in r.StartBlock..r.EndBlock

\* a transaction failed after its batch row was written, next to a committed
\* batch
C3_Witness ==
    \E p, q \in Procs :
       /\ result[p].val \in {"ErrSetBatchIDForBlocksInDBTx", "ErrCommit"}
       /\ result[q] = [val |-> "nil", line |-> 96]
       /\ batchTable # {}

\* the mathematical sum of the gas of blocks[1..n] exceeds the threshold
RECURSIVE TrueSumExceeds(_, _, _, _)
TrueSumExceeds(blocks, n, i, acc) ==
    IF i > n THEN GtU64(acc, batchGasThreshold)
    ELSE IF AddCarries(acc, blocks[i].GasUsed) THEN TRUE
    ELSE TrueSumExceeds(blocks, n, i + 1, AddU64(acc, blocks[i].GasUsed))

IsPrefix(s, t) == Len(s) <= Len(t) /\ \A i \in 1..Len(s) : s[i] = t[i]

\* C4: whenever tryProposeBatch commits a batch, its blocks are the maximal
\* prefix of the fetched blocks whose cumulative gas is at most 3,000,000.
C4_MaximalPrefixWithinThreshold ==
    \A p \in Procs :
       pc[p] \in InCreateBatch =>
          LET blocks == loc[p].blocks
              k == Len(loc[p].blocksToBatch)
          IN  /\ Len(blocks) <= batchBlocksLimit
              /\ \A i \in 1..(Len(blocks) - 1) :
                    blocks[i].Number < blocks[i + 1].Number
              /\ IsPrefix(loc[p].blocksToBatch, blocks)
              /\ ~TrueSumExceeds(blocks, k, 1, Zero64)
              /\ k = Len(blocks) \/ TrueSumExceeds(blocks, k + 1, 1, Zero64)

IsExampleStore ==
    /\ Len(blockInfos) = 4
    /\ \A n \in 1..4 : blockInfos[n].GasUsed = ExampleGas[n]

\* C5 as stated: with gas [1,000,000, 1,000,000, 1,500,000, 500,000] the
\* first batch committed holds exactly the first three blocks.
C5_FirstThreeBlocks ==
    IsExampleStore =>
       /\ \A r \in batchTable : r.ID = 1 => r.StartBlock = 1 /\ r.EndBlock = 3
       /\ batchTable # {} => BlocksOfBatch(blockInfos, 1) = {1, 2, 3}

\* C5 amended: with gas [1,000,000, 1,000,000, 1,500,000, 500,000] the first
\* batch committed holds exactly the first two blocks (the third would bring
\* the cumulative gas to 3,500,000).
C5_FirstTwoBlocks ==
    IsExampleStore =>
       /\ \A r \in batchTable : r.ID = 1 => r.StartBlock = 1 /\ r.EndBlock = 2
       /\ batchTable # {} => BlocksOfBatch(blockInfos, 1) = {1, 2}
       /\ \A p \in Procs :
            pc[p] \in InCreateBatch /\ batchTable = {} =>
               loc[p].idsToBatch = <<1, 2>>

\* the first call on the example store has committed its batch
C5_Witness ==
    /\ IsExampleStore
    /\ Cardinality(batchTable) = 1
    /\ \E p \in Procs : result[p] = [val |-> "nil", line |-> 96]

\* the three conditions of the deferral, on the fetched blocks
DeferCondition(blocks, unixNow) ==
    LET acc == Accumulate(blocks, 1, EmptyAcc)
    IN  /\ Len(acc.blocksToBatch) = Len(blocks)
        /\ LtU64(acc.gasUsed, batchGasThreshold)
        /\ blocks[1].BlockTimestamp + batchTimeSec > unixNow

\* C6: with a non-empty fetch tryProposeBatch defers (returns nil at line 58,
\* the store untouched) if and only if the prefix consumed every fetched
\* block, the accumulated gas is strictly below the threshold and the oldest
\* fetched block's timestamp plus 300 is strictly greater than the current
\* time; in every other case it goes on (to the panic of an empty prefix or
\* to createBatchForBlocks).
C6_DefersIffFreshAndLight ==
    [][\A p \in Procs :
          pc[p] = "decide" /\ pc'[p] # "decide" =>
             /\ (/\ pc'[p] = "idle"
                 /\ result'[p] = [val |-> "nil", line |-> 58]
                 /\ blockInfos' = blockInfos
                 /\ batchTable' = batchTable)
                <=> DeferCondition(loc[p].blocks, now)
             /\ ~DeferCondition(loc[p].blocks, now) =>
                   \/ pc'[p] = "begin"
                   \/ result'[p].val = "panic"]_vars

\* a single light block was deferred while fresh and is proposed by a call
\* made once it is 5 minutes old
C6_Witness ==
    \E p, q \in Procs :
       /\ p # q
       /\ Len(blockInfos) = 1
       /\ result[p] = [val |-> "nil", line |-> 58]
       /\ pc[q] = "begin"
       /\ now >= blockInfos[1].BlockTimestamp + batchTimeSec

\* the error tryProposeBatch returns when the step at pc fails
ErrOfStep(at) ==
    CASE at = "fetch" -> "ErrGetUnbatchedBlocks"
      [] at = "begin" -> "ErrBeginx"
      [] at = "newbatch" -> "ErrNewBatchInDBTx"
      [] at = "setids" -> "ErrSetBatchIDForBlocksInDBTx"
      [] at = "commit" -> "ErrCommit"
      [] OTHER -> "none"

\* C9: an invocation that returns a store error returns the error of the
\* step that failed and leaves the committed store as it was when the
\* invocation took the lock: the batch rows and every block's batch id are
\* unchanged, and the blocks it had fetched are still the first unbatched
\* blocks a later invocation fetches.
C9_FailedAttemptLeavesStore ==
    [][\A p \in Procs :
          Returns(p) /\ result'[p].val \in ErrVals =>
             /\ result'[p].val = ErrOfStep(pc[p])
             /\ batchTable' = hist[p].snapBatches
             /\ \A i \in 1..Len(hist[p].snapIDs) :
                   blockInfos'[i].BatchID = hist[p].snapIDs[i]
             /\ pc[p] # "fetch" =>
                   IsPrefix(loc[p].blocks,
                            GetUnbatchedBlocks(blockInfos', batchBlocksLimit))]_vars

\* an invocation failed at Commit and a later one batched the same block
C9_Witness ==
    \E p, q \in Procs :
       /\ result[p].val = "ErrCommit"
       /\ result[q] = [val |-> "nil", line |-> 96]
       /\ Len(blockInfos) = 1
       /\ blockInfos[1].BatchID # NoBatch

\* C2 as stated: of two simultaneous invocations started against the same
\* unbatched blocks, the one that takes the lock second commits no further
\* batch once the first has committed.
C2_SecondCommitsNothing ==
    [][\A q \in Procs : hist[q].rival # NoBatch => ~Commits(q)]_vars

\* C2 amended: of two simultaneous invocations started against the same
\* unbatched blocks, the second commits no block of the first's batch: it
\* commits nothing when the first batch took every block unbatched at the
\* start and none arrived since, and otherwise fetches and commits at most one
\* further batch, made only of blocks the first left unbatched.
C2_SecondBatchIsDisjoint ==
    [][\A q \in Procs :
          hist[q].rival # NoBatch /\ Returns(q) =>
             LET first == BlocksOfBatch(blockInfos, hist[q].rival)
                 mine == SeqSet(loc[q].idsToBatch)
             IN  /\ Commits(q) =>
                       /\ mine \cap first = {}
                       /\ BlocksOfBatch(blockInfos', hist[q].rival) = first
                       /\ Cardinality(batchTable') = Cardinality(batchTable) + 1
                 /\ (/\ hist[q].startSet \subseteq first
                     /\ Len(blockInfos) = MaxOf(hist[q].startSet))
                    => ~Commits(q)
                 /\ \A i \in 1..Len(loc[q].blocks) :
                       loc[q].blocks[i].Number \notin first]_vars

\* the second of two simultaneous invocations is in createBatchForBlocks
\* after the first committed its batch
C2_Witness ==
    \E q \in Procs : hist[q].rival # NoBatch /\ pc[q] = "commit"

\* the gas of the oldest unbatched block alone exceeds the threshold
OldestUnbatchedOversized(table) ==
    LET un == GetUnbatchedBlocks(table, batchBlocksLimit)
    IN  Len(un) > 0 /\ GtU64(un[1].GasUsed, batchGasThreshold)

\* C8 as stated: whenever the oldest unbatched block's gas alone exceeds the
\* threshold, an invocation ends in the panic, never in nil or an error, and
\* writes nothing.
C8_OversizedAlwaysPanics ==
    [][\A p \in Procs :
          Returns(p) /\ OldestUnbatchedOversized(blockInfos) =>
             /\ result'[p].val = "panic"
             /\ blockInfos' = blockInfos /\ batchTable' = batchTable]_vars

\* C8 amended: whenever GetUnbatchedBlocks succeeds and the oldest unbatched
\* block's gas alone exceeds the threshold, the invocation ends in the panic,
\* whatever the block's age and whatever follows it, and writes nothing; when
\* GetUnbatchedBlocks fails the invocation returns that error instead.
C8_OversizedPanicsOnceFetched ==
    [][\A p \in Procs :
          Returns(p) /\ OldestUnbatchedOversized(blockInfos) =>
             /\ result'[p].val \in {"panic", "ErrGetUnbatchedBlocks"}
             /\ result'[p].val = "ErrGetUnbatchedBlocks" => pc[p] = "fetch"
             /\ pc[p] # "fetch" => result'[p] = [val |-> "panic", line |-> 62]
             /\ blockInfos' = blockInfos /\ batchTable' = batchTable]_vars

\* an invocation panicked on an old oversized block that other blocks follow
C8_Witness ==
    \E p \in Procs :
       /\ result[p].val = "panic"
       /\ OldestUnbatchedOversized(blockInfos)
       /\ Len(GetUnbatchedBlocks(blockInfos, batchBlocksLimit)) >= 2
       /\ now >= blockInfos[1].BlockTimestamp + batchTimeSec

BlockNumbers == 1..(MaxBlocks + 1)

IsBatched(n) == Len(blockInfos) >= n /\ blockInfos[n].BatchID # NoBatch

\* block n is in the store and neither it nor a block before it is oversized
Batchable(n) ==
    /\ Len(blockInfos) >= n
    /\ \A m \in 1..n : ~GtU64(blockInfos[m].GasUsed, batchGasThreshold)

\* C7 as stated: if tryProposeBatch keeps being invoked, the store does not
\* fail and time advances, every block of the store is eventually assigned to
\* a batch.
C7_EveryBlockEventuallyBatched ==
    \A n \in BlockNumbers : (Len(blockInfos) >= n) ~> IsBatched(n)

\* C7 amended: if tryProposeBatch keeps being invoked, the store does not
\* fail and time advances, every block is eventually assigned to a batch
\* unless its gas, or the gas of a block before it, alone exceeds the
\* threshold; an invocation that finds the oldest fetched block at least 5
\* minutes old and not oversized goes on to commit a batch that starts with
\* that block.
C7_BatchableBlockEventuallyBatched ==
    /\ \A n \in BlockNumbers : Batchable(n) ~> IsBatched(n)
    /\ [][\A p \in Procs :
             /\ pc[p] = "decide" /\ pc'[p] # "decide"
             /\ loc[p].blocks[1].BlockTimestamp + batchTimeSec <= now
             /\ ~GtU64(loc[p].blocks[1].GasUsed, batchGasThreshold)
             => /\ pc'[p] = "begin"
                /\ loc'[p].idsToBatch[1] = loc[p].blocks[1].Number]_vars
    /\ [][\A p \in Procs :
             pc[p] \in InCreateBatch /\ pc'[p] = "idle" =>
                /\ Commits(p)
                /\ \A i \in 1..Len(loc[p].idsToBatch) :
                      blockInfos'[loc[p].idsToBatch[i]].BatchID # NoBatch]_vars

\* a single light block, deferred while fresh, was batched once old
C7_Witness ==
    /\ Len(blockInfos) = 1
    /\ IsBatched(1)
    /\ ~GtU64(blockInfos[1].GasUsed, batchGasThreshold)
    /\ \E p \in Procs : result[p] = [val |-> "nil", line |-> 96]
    /\ now >= blockInfos[1].BlockTimestamp + batchTimeSec

\* C10: once Sign(privKey) has returned without error, whatever calls were
\* made on the message before, Verify returns (true, nil) and PublicKey
\* returns the hex-encoded compressed public key of privKey.
C10_SignThenVerify ==
    signer # InvalidKey =>
       /\ lastCall.op = "Verify" => lastCall.err = "nil" /\ lastCall.ok
       /\ lastCall.op = "PublicKey" =>
             /\ lastCall.err = "nil"
             /\ lastCall.val = Bytes2Hex(CompressPubkey(PublicKeyOf(signer)))

\* the message carries a signature that was valid for its ProofDetail before
\* one of its bytes was changed
CarriesFlippedSignature ==
    LET sig == FromHex(proofMsg.Signature)
    IN  /\ sig.len = 65
        /\ IsFlipped(sig)
        /\ sig.body[1] = Hash(proofMsg.ProofDetail)

\* C11: when a single byte of a valid signature is flipped and the signed
\* ProofDetail is left unchanged, Verify returns false with no error.
C11_FlippedByteIsFalse ==
    lastCall.op = "Verify" /\ CarriesFlippedSignature =>
       lastCall.err = "nil" /\ ~lastCall.ok

\* the stored signature cannot be decoded or recovered: it is not valid hex,
\* it is empty, or it does not decode to 65 bytes
Malformed(str) == str.junk \/ FromHex(str).len # 65

\* C12: whenever the stored signature is malformed Verify returns an error,
\* never true or false and never a crash, whether or not a public key is
\* cached on the message; false without error is returned only for a
\* structurally valid signature.
C12_MalformedIsError ==
    lastCall.op = "Verify" =>
       /\ Malformed(proofMsg.Signature) => lastCall.err = "error"
       /\ lastCall.err = "nil" /\ ~lastCall.ok => ~Malformed(proofMsg.Signature)

\* C13: SanityCheck returns an error when the proof object is nil, when Proof
\* has length 0 and when the length of Proof is not a multiple of 32; it
\* returns no error for every non-empty Proof whose length is a multiple of
\* 32, whatever Instances, Vk and GitVersion hold.
C13_SanityCheck ==
    sanityCall.called =>
       LET ap == sanityCall.ap
       IN  /\ IsNil(ap) => sanityCall.err # "nil"
           /\ ~IsNil(ap) /\ Len(ap.Proof) = 0 => sanityCall.err # "nil"
           /\ ~IsNil(ap) /\ Len(ap.Proof) % 32 # 0 => sanityCall.err # "nil"
           /\ (/\ ~IsNil(ap)
               /\ Len(ap.Proof) > 0
               /\ Len(ap.Proof) % 32 = 0) => sanityCall.err = "nil"

\* a 64-byte proof with Instances, Vk and GitVersion set was accepted
C13_Witness ==
    /\ sanityCall.called
    /\ Len(sanityCall.ap.Proof) = 64
    /\ sanityCall.ap.Instances # <<>>
    /\ sanityCall.ap.Vk # <<>>
    /\ sanityCall.err = "nil"

\* C14: Hash is deterministic and field-sensitive: two calls on the same
\* ProofDetail return the same digest, and two calls on ProofDetail values
\* that differ, in a single field at any depth or in more, return different
\* digests.
C14_HashDistinguishesDetails ==
    \A i, j \in 1..Len(hashCalls) :
       (hashCalls[i].z = hashCalls[j].z) <=> (hashCalls[i].hash = hashCalls[j].hash)

\* two details that differ only in ChunkInfo.IsPadding were hashed
C14_Witness ==
    /\ Len(hashCalls) = 2
    /\ hashCalls[1].z = FullDetail
    /\ hashCalls[2].z = [FullDetail EXCEPT !.ChunkProof.ChunkInfo.IsPadding = TRUE]

\* the ranges of the committed batches are contiguous, disjoint and ascending,
\* and no unbatched block lies behind a batched one
RangesInOrder ==
    /\ \A r \in batchTable :
          /\ r.StartBlock <= r.EndBlock
          /\ BlocksOfBatch(blockInfos, r.ID) = r.StartBlock..r.EndBlock
    /\ \A r1, r2 \in batchTable : r1.ID < r2.ID => r1.EndBlock < r2.StartBlock
    /\ \A n \in 1..(Len(blockInfos) - 1) :
          blockInfos[n].BatchID = NoBatch => blockInfos[n + 1].BatchID = NoBatch

\* C15: with gap-free block numbers, every committed batch covers a contiguous
\* range [start, end] and the blocks carrying its id are exactly the blocks of
\* that range; batches are created in ascending order, each one starting at
\* the lowest-numbered block unbatched at that moment, so ranges never overlap
\* and no unbatched block is left behind a batched one.
C15_ContiguousAscendingRanges ==
    /\ []RangesInOrder
    /\ [][\A p \in Procs :
             Commits(p) =>
                \E r \in batchTable' \ batchTable :
                   /\ batchTable' = batchTable \cup {r}
                   /\ \A n \in UnbatchedNumbers(blockInfos) : r.StartBlock <= n
                   /\ r.StartBlock \in UnbatchedNumbers(blockInfos)
                   /\ \A q \in batchTable : q.ID < r.ID]_vars

\* two batches are committed, the first of more than one block and the
\* second starting right behind it
C15_Witness ==
    /\ Cardinality(batchTable) = 2
    /\ \E r1, r2 \in batchTable :
          /\ r1.ID = 1 /\ r1.EndBlock > r1.StartBlock
          /\ r2.ID = 2 /\ r2.StartBlock = r1.EndBlock + 1

\* the sum of a sequence of uint64 values, and whether it passes 2^64 - 1
RECURSIVE SumOf(_, _, _)
SumOf(vals, i, acc) ==
    IF i > Len(vals) THEN [wraps |-> FALSE, sum |-> acc]
    ELSE IF AddCarries(acc, vals[i]) THEN [wraps |-> TRUE, sum |-> acc]
    ELSE SumOf(vals, i + 1, AddU64(acc, vals[i]))

\* the uint64 value is the sum of the values
IsSumOf(total, vals) ==
    ~SumOf(vals, 1, Zero64).wraps /\ SumOf(vals, 1, Zero64).sum = total

\* C16: every committed batch record is derived from its accumulated prefix:
\* its start block is the first block of the prefix, its end block the last,
\* its parent hash the parent hash of the first, its transaction count the
\* sum of the TxNum of the blocks of the prefix and its gas used the sum of
\* their GasUsed.
C16_RecordDerivedFromPrefix ==
    [][\A p \in Procs :
          Commits(p) =>
             LET prefix == loc[p].blocksToBatch
             IN  \E r \in batchTable' \ batchTable :
                    /\ r.StartBlock = prefix[1].Number
                    /\ r.EndBlock = prefix[Len(prefix)].Number
                    /\ r.ParentHash = prefix[1].ParentHash
                    /\ IsSumOf(r.TotalTxNum,
                               [i \in 1..Len(prefix) |-> prefix[i].TxNum])
                    /\ IsSumOf(r.TotalL2Gas,
                               [i \in 1..Len(prefix) |-> prefix[i].GasUsed])]_vars

\* invocation p leaves its fetch in this step, made when the store holds no
\* unbatched block
FetchesNothing(p) ==
    /\ pc[p] = "fetch" /\ pc'[p] # "fetch"
    /\ UnbatchedNumbers(blockInfos) = {}

\* C17 as stated: when no unbatched blocks exist tryProposeBatch returns nil,
\* opens no transaction and leaves the batch and block store unchanged.
C17_EmptyReturnsNil ==
    [][\A p \in Procs :
          FetchesNothing(p) =>
             /\ pc'[p] = "idle"
             /\ result'[p].val = "nil"
             /\ dbTx' = dbTx /\ dbTx[p] = NoTx
             /\ blockInfos' = blockInfos /\ batchTable' = batchTable]_vars

\* C17 amended: when no unbatched blocks exist and GetUnbatchedBlocks
\* succeeds, tryProposeBatch returns nil at the empty guard (line 35), with no
\* error and no fatal signal; when GetUnbatchedBlocks fails it returns that
\* error (line 32); either way the invocation ends there, opens no
\* transaction and leaves the batch and block store unchanged.
C17_EmptyReturnsNilOnceFetched ==
    [][\A p \in Procs :
          FetchesNothing(p) =>
             /\ pc'[p] = "idle"
             /\ \/ result'[p] = [val |-> "nil", line |-> 35]
                \/ result'[p] = [val |-> "ErrGetUnbatchedBlocks", line |-> 32]
             /\ dbTx' = dbTx /\ dbTx[p] = NoTx
             /\ blockInfos' = blockInfos /\ batchTable' = batchTable]_vars

\* an invocation found every block batched and returned nil at the guard
C17_Witness ==
    \E p \in Procs :
       /\ result[p] = [val |-> "nil", line |-> 35]
       /\ pc[p] = "idle"
       /\ batchTable # {}
       /\ UnbatchedNumbers(blockInfos) = {}

\* the hex-encoded compressed key that recovery from the message's current
\* signature and current hash yields; the empty string when recovery fails
RecoveredNow ==
    LET recovered == SigToPub(Hash(proofMsg.ProofDetail),
                              FromHex(proofMsg.Signature))
    IN  IF recovered.err = "nil" THEN Bytes2Hex(CompressPubkey(recovered.pub))
        ELSE EmptyString

\* C18: after any sequence of Sign, Verify and PublicKey calls on one ProofMsg
\* a non-empty cached public key equals the key that recovery from the
\* message's current signature and current hash yields, and PublicKey
\* reports it.
C18_CacheNeverStale ==
    /\ proofMsg.publicKey # EmptyString => proofMsg.publicKey = RecoveredNow
    /\ lastCall.op = "PublicKey" /\ lastCall.err = "nil" =>
          lastCall.val = RecoveredNow

\* C19: the proposal lock is released on every exit path of tryProposeBatch:
\* every return is made by the holder and frees the mutex, the mutex is only
\* held by an invocation in progress, and an invocation waiting for the lock
\* eventually acquires it.
C19_LockAlwaysReleased ==
    /\ [][\A p \in Procs : Returns(p) => bpMutex = p /\ bpMutex' = 0]_vars
    /\ [](bpMutex # 0 => pc[bpMutex] \notin {"idle", "lock"})
    /\ \A q \in Procs : (pc[q] = "lock") ~> (bpMutex = q)

\* one invocation ended in the fatal panic and another holds the lock after it
C19_Witness ==
    \E p, q \in Procs :
       /\ p # q
       /\ pc[p] = "idle" /\ result[p].val = "panic"
       /\ bpMutex = q

\* the GasUsed of the blocks of a prefix
GasOf(prefix) == [i \in 1..Len(prefix) |-> prefix[i].GasUsed]

\* C20: the sum gasUsed + block.GasUsed never wraps around modulo 2^64: for
\* every prefix that goes on to createBatchForBlocks the sum of the gas of
\* its blocks stays below 2^64, does not exceed the threshold, and is the
\* aggregate gas handed to the store.
C20_GasSumNeverWraps ==
    \A p \in Procs :
       pc[p] \in InCreateBatch =>
          /\ ~SumOf(GasOf(loc[p].blocksToBatch), 1, Zero64).wraps
          /\ IsSumOf(loc[p].gasUsed, GasOf(loc[p].blocksToBatch))
          /\ ~GtU64(loc[p].gasUsed, batchGasThreshold)

====
